---- MODULE Spec2Model ----
(***************************************************************************)
(* Model of lavatory/utils/artifactory.py: the Artifactory helper class    *)
(* (list, purge, filter, retain) and the part of the Artifactory server    *)
(* those methods talk to (storage info, AQL search, delete).               *)
(*                                                                         *)
(* Python values are represented as follows.                               *)
(*   None / a value   the empty tuple None / the one-element tuple Some(v) *)
(*   a list           a sequence                                           *)
(*   a dict           a function from keys to values                       *)
(*   an AQL term      a record [field, op, value]; op is "" for the short  *)
(*                    form {"field": value} and "$eq" for the long form    *)
(*                    {"field": {"$eq": value}}                            *)
(*   an AQL string    the sequence of its clauses, in textual order        *)
(***************************************************************************)
EXTENDS Integers, Sequences, FiniteSets, TLC

VARIABLES store, listing, callerTerms, op, ret, raised, aqlLog, deleteLog

vars == <<store, listing, callerTerms, op, ret, raised, aqlLog, deleteLog>>

(* ------------------------------ bounds --------------------------------- *)

MaxListing == 3

MaxPurge == 3

MaxCount == 2

MaxWeeks == 2

\* longest caller-owned terms list that is still handed to filter
MaxTerms == 4

(* ------------------------- Python value helpers ------------------------ *)

None == <<>>

Some(v) == <<v>>

\* truth value of an optional integer: None and 0 are falsy
TruthyInt(x) == x # None /\ x[1] # 0

\* truth value of an optional string: None and "" are falsy
TruthyStr(x) == x # None /\ x[1] # ""

\* truth value of an optional list or dict: None and the empty one are falsy
TruthyColl(x) == x # None /\ x[1] # <<>>

EmptyDict == <<>>

DictPut(d, k, v) == [x \in (DOMAIN d) \cup {k} |-> IF x = k THEN v ELSE d[x]]

(* ------------------------------- list ---------------------------------- *)

Summary(key, n) == [repoKey |-> key, filesCount |-> n]

\* entries the server may report in repositoriesSummaryList
Summaries ==
    { Summary("TOTAL", 9), Summary("libs", 4), Summary("libs", 5), Summary("apps", 2) }

RepoNames == { None, Some(""), Some("libs"), Some("apps"), Some("TOTAL"), Some("ghost") }

RECURSIVE SeqsUpTo(_, _)
SeqsUpTo(S, n) ==
    IF n = 0 THEN { <<>> }
    ELSE LET shorter == SeqsUpTo(S, n - 1)
         IN  shorter \cup { Append(s, e) : s \in shorter, e \in S }

SkipTotalNever(repo) == FALSE

\* if repo["repoKey"] == "TOTAL": continue
SkipTotal(repo) == repo.repoKey = "TOTAL"

\* if not repo_name or repo_name == repo["repoKey"]
SelectRepo(repo_name, repo) ==
    ~TruthyStr(repo_name) \/ repo_name = Some(repo.repoKey)

RECURSIVE ListLoop(_, _, _, _)
ListLoop(data, repo_name, i, repos) ==
    IF i > Len(data) THEN repos
    ELSE LET repo == data[i]
         IN  IF SkipTotal(repo) THEN ListLoop(data, repo_name, i + 1, repos)
             ELSE IF SelectRepo(repo_name, repo)
                  THEN ListLoop(data, repo_name, i + 1, DictPut(repos, repo.repoKey, repo))
                  ELSE ListLoop(data, repo_name, i + 1, repos)

List(repo_name) ==
    /\ op' = [name |-> "list", repo_name |-> repo_name]
    /\ ret' = ListLoop(listing, repo_name, 1, EmptyDict)
    /\ raised' = "none"
    /\ UNCHANGED <<store, listing, callerTerms, aqlLog, deleteLog>>

NoCall == [name |-> "init"]

InitList ==
    /\ listing \in SeqsUpTo(Summaries, MaxListing)
    /\ store = {}
    /\ callerTerms = <<>>
    /\ op = NoCall
    /\ ret = 0
    /\ raised = "none"
    /\ aqlLog = <<>>
    /\ deleteLog = <<>>

NextList == \E repo_name \in RepoNames : List(repo_name)

SpecList == InitList /\ [][NextList]_vars

ListingKeys == { listing[i].repoKey : i \in DOMAIN listing } \ { "TOTAL" }

WeekSeconds == 604800

\* "{}/{}".format(path, name)
JoinPath(path, name) == path \o "/" \o name

Item(repo, type, depth, path, name, created) ==
    [repo |-> repo, type |-> type, depth |-> depth, path |-> path,
     name |-> name, created |-> created]

FullPath(item) == JoinPath(item.path, item.name)

ProjApp == Item("libs", "folder", 1, "org", "app", 0)

ProjLib == Item("libs", "folder", 1, "org", "lib", 0)

BuildV1 == Item("libs", "folder", 2, "org/app", "v1", WeekSeconds)

BuildV2 == Item("libs", "folder", 2, "org/app", "v2", 2 * WeekSeconds)

BuildV3 == Item("libs", "folder", 2, "org/app", "v3", 2 * WeekSeconds)

BuildV4 == Item("libs", "folder", 2, "org/app", "v4", 2 * WeekSeconds + 1)

BuildW1 == Item("libs", "folder", 2, "org/lib", "w1", WeekSeconds)

(* ------------------------------- purge --------------------------------- *)

\* self.artifactory.request(artifact, method='delete') on server content st:
\* the request raises when the transport fails or nothing is stored at the
\* path; otherwise the item and everything directly below it are removed.
DeleteOk(st, artifact, transportFails) ==
    ~transportFails /\ \E i \in st : FullPath(i) = artifact

DeleteEffect(st, artifact) ==
    { i \in st : FullPath(i) # artifact /\ i.path # artifact }

PurgeStart(st) == [purged |-> 0, store |-> st, deleteLog |-> <<>>]

PurgeBodyIgnoresDryRun(acc, artifact, dry_run, transportFails) ==
    LET ok == DeleteOk(acc.store, artifact, transportFails)
    IN  [purged    |-> IF ok THEN acc.purged + 1 ELSE acc.purged,
         store     |-> IF ok THEN DeleteEffect(acc.store, artifact) ELSE acc.store,
         deleteLog |-> Append(acc.deleteLog, [path |-> artifact, ok |-> ok])]

PurgeBodyCountsAttempts(acc, artifact, dry_run, transportFails) ==
    IF dry_run THEN [acc EXCEPT !.purged = @ + 1]
    ELSE LET ok == DeleteOk(acc.store, artifact, transportFails)
         IN  [purged    |-> acc.purged + 1,
              store     |-> IF ok THEN DeleteEffect(acc.store, artifact) ELSE acc.store,
              deleteLog |-> Append(acc.deleteLog, [path |-> artifact, ok |-> ok])]

\* the body of "for artifact in artifacts"
PurgeBody(acc, artifact, dry_run, transportFails) ==
    IF dry_run THEN [acc EXCEPT !.purged = @ + 1]
    ELSE LET ok == DeleteOk(acc.store, artifact, transportFails)
         IN  [purged    |-> IF ok THEN acc.purged + 1 ELSE acc.purged,
              store     |-> IF ok THEN DeleteEffect(acc.store, artifact) ELSE acc.store,
              deleteLog |-> Append(acc.deleteLog, [path |-> artifact, ok |-> ok])]

RECURSIVE PurgeLoop(_, _, _, _, _)
PurgeLoop(artifacts, dry_run, fails, i, acc) ==
    IF i > Len(artifacts) THEN acc
    ELSE PurgeLoop(artifacts, dry_run, fails, i + 1,
                   PurgeBody(acc, artifacts[i], dry_run, i \in fails))

\* fails: the positions of the list at which the transport raises
Purge(repo, dry_run, artifacts, fails) ==
    LET out == PurgeLoop(artifacts, dry_run, fails, 1, PurgeStart(store))
    IN  /\ op' = [name |-> "purge", repo |-> repo, dry_run |-> dry_run,
                  artifacts |-> artifacts]
        /\ ret' = out.purged
        /\ store' = out.store
        /\ deleteLog' = out.deleteLog
        /\ raised' = "none"
        /\ aqlLog' = <<>>
        /\ UNCHANGED <<listing, callerTerms>>

PurgeStores == SUBSET { ProjApp, BuildV1, BuildV2 }

PurgePaths == { "org/app", "org/app/v1", "org/ghost" }

InitPurge ==
    /\ store \in PurgeStores
    /\ listing = <<>>
    /\ callerTerms = <<>>
    /\ op = NoCall
    /\ ret = 0
    /\ raised = "none"
    /\ aqlLog = <<>>
    /\ deleteLog = <<>>

NextPurge ==
    \E artifacts \in SeqsUpTo(PurgePaths, MaxPurge) :
        \/ Purge("libs", TRUE, artifacts, {})
        \/ \E fails \in SUBSET (DOMAIN artifacts) : Purge("libs", FALSE, artifacts, fails)

SpecPurge == InitPurge /\ [][NextPurge]_vars

\* C4: a dry-run purge returns the length of the artifact list, issues no
\* delete request and leaves the content of the server as it was.
PurgeDryRun ==
    [][ (op'.name = "purge" /\ op'.dry_run)
            => /\ ret' = Len(op'.artifacts)
               /\ deleteLog' = <<>>
               /\ raised' = "none"
               /\ store' = store ]_vars

PurgeDryRunWitness ==
    /\ op.name = "purge"
    /\ op.dry_run
    /\ Len(op.artifacts) = 3
    /\ ret = 3
    /\ \E i \in store : FullPath(i) = op.artifacts[1]

\* C5: a live purge issues exactly one delete request per element of the
\* list, in list order, whichever of them fail; it does not raise, and it
\* returns the number of requests that succeeded.
PurgeLive ==
    (op.name = "purge" /\ ~op.dry_run) =>
        /\ raised = "none"
        /\ Len(deleteLog) = Len(op.artifacts)
        /\ \A i \in DOMAIN deleteLog : deleteLog[i].path = op.artifacts[i]
        /\ ret = Cardinality({ i \in DOMAIN deleteLog : deleteLog[i].ok })

PurgeLiveWitness ==
    /\ op.name = "purge"
    /\ ~op.dry_run
    /\ Len(deleteLog) = 2
    /\ ~deleteLog[1].ok
    /\ deleteLog[2].ok
    /\ ret = 1

(* ----------------------- AQL and its evaluation ------------------------ *)

FileNotes == Item("libs", "file", 2, "org/app", "notes.txt", WeekSeconds)

OtherX1 == Item("apps", "folder", 2, "org/app", "x1", WeekSeconds)

\* {"path": path}
PathTerm(path) == [field |-> "path", op |-> "", value |-> path]

\* {"created": created}
CreatedTerm(created) == [field |-> "created", op |-> "", value |-> created]

\* {"repo": {"$eq": repo}}, {"type": {"$eq": "folder"}}, {"depth": {"$eq": depth}}
RepoTerm(repo) == [field |-> "repo", op |-> "$eq", value |-> repo]

TypeTerm == [field |-> "type", op |-> "$eq", value |-> "folder"]

DepthTerm(depth) == [field |-> "depth", op |-> "$eq", value |-> depth]

\* {"$desc": ["created"]}
SortDesc(f) == [dir |-> "$desc", fields |-> <<f>>]

SortAsc(f) == [dir |-> "$asc", fields |-> <<f>>]

TruthyDict(x) == x # None /\ DOMAIN x[1] # {}

\* the clause of an AQL string with the given keyword, None when absent
Clause(aql, kw) ==
    IF \E i \in DOMAIN aql : kw \in DOMAIN aql[i]
    THEN Some(aql[CHOOSE i \in DOMAIN aql : kw \in DOMAIN aql[i]][kw])
    ELSE None

\* a criterion in short form or with $eq is an equality; $lt and $gt compare
EvalTerm(t, item) ==
    CASE t.op \in { "", "$eq" } -> item[t.field] = t.value
      [] t.op = "$lt"           -> item[t.field] < t.value
      [] t.op = "$gt"           -> item[t.field] > t.value

Matches(terms, item) == \A k \in DOMAIN terms : EvalTerm(terms[k], item)

Orderings(S) ==
    { s \in [1 .. Cardinality(S) -> S] : \A i, j \in DOMAIN s : i # j => s[i] # s[j] }

Sorted(s, sort) ==
    \/ sort = None
    \/ /\ sort # None
       /\ LET f == sort[1].fields[1]
          IN  \A i, j \in DOMAIN s :
                  i < j => IF sort[1].dir = "$desc" THEN s[i][f] >= s[j][f]
                           ELSE s[i][f] <= s[j][f]

Drop(s, n) == SubSeq(s, n + 1, Len(s))

Take(s, n) == SubSeq(s, 1, IF n < Len(s) THEN n ELSE Len(s))

\* self.artifactory.find_by_aql(criteria=aql)["results"] on server content
\* st: every result sequence the server may answer with.  Items that match
\* the find criteria, in an order compatible with the sort clause (any order
\* without one; the order among equal sort keys is the server's), then
\* offset, then limit.
FindByAql(aql, st) ==
    LET found   == { item \in st : Matches(aql[1].find, item) }
        sort    == Clause(aql, "sort")
        offset  == Clause(aql, "offset")
        limit   == Clause(aql, "limit")
        skip(s) == IF offset = None THEN s ELSE Drop(s, offset[1])
        cut(s)  == IF limit = None THEN s ELSE Take(s, limit[1])
    IN  { cut(skip(s)) : s \in { o \in Orderings(found) : Sorted(o, sort) } }

(* ------------------------------- filter -------------------------------- *)

\* the terms list after "if terms is None: terms = []" and the three appends
FilterTerms(repo, terms, depth) ==
    (IF terms = None THEN <<>> ELSE terms[1])
        \o << RepoTerm(repo), TypeTerm, DepthTerm(depth) >>

SortGiven(sort) == TruthyDict(sort)

OffsetGivenNotNone(offset) == offset # None

OffsetGiven(offset) == TruthyInt(offset)

LimitGiven(limit) == TruthyInt(limit)

\* the composed query text, clause by clause
FilterAql(repo, terms, depth, sort, offset, limit) ==
    << [find |-> FilterTerms(repo, terms, depth)] >>
        \o (IF SortGiven(sort) THEN << [sort |-> sort[1]] >> ELSE <<>>)
        \o (IF OffsetGiven(offset) THEN << [offset |-> offset[1]] >> ELSE <<>>)
        \o (IF LimitGiven(limit) THEN << [limit |-> limit[1]] >> ELSE <<>>)

\* a direct call of filter; passTerms: the caller hands over its own list
\* object callerTerms, which the appends then modify in place
Filter(repo, passTerms, depth, sort, offset, limit) ==
    LET terms == IF passTerms THEN Some(callerTerms) ELSE None
        aql   == FilterAql(repo, terms, depth, sort, offset, limit)
    IN  /\ passTerms => Len(callerTerms) <= MaxTerms
        /\ op' = [name |-> "filter", repo |-> repo, terms |-> terms, depth |-> depth,
                  sort |-> sort, offset |-> offset, limit |-> limit]
        /\ callerTerms' = IF passTerms THEN FilterTerms(repo, terms, depth)
                          ELSE callerTerms
        /\ aqlLog' = << aql >>
        /\ ret' \in FindByAql(aql, store)
        /\ raised' = "none"
        /\ deleteLog' = <<>>
        /\ UNCHANGED <<store, listing>>

\* the caller builds a new list of its own terms
NewTerms(terms) ==
    /\ op' = [name |-> "newterms", terms |-> terms]
    /\ callerTerms' = terms
    /\ ret' = 0
    /\ raised' = "none"
    /\ aqlLog' = <<>>
    /\ deleteLog' = <<>>
    /\ UNCHANGED <<store, listing>>

FilterStore == { ProjApp, ProjLib, BuildV1, BuildV2, BuildV3, FileNotes, OtherX1 }

CallerLists == { <<>>, << PathTerm("org/app") >> }

Repos == { "libs" }

Depths == { 1, 2 }

SortValues == { None, Some(<<>>), Some(SortDesc("created")) }

OffsetValues == { None, Some(0), Some(1), Some(5) }

LimitValues == { None, Some(0), Some(2) }

InitFilter ==
    /\ store = FilterStore
    /\ listing = <<>>
    /\ callerTerms \in CallerLists
    /\ op = NoCall
    /\ ret = 0
    /\ raised = "none"
    /\ aqlLog = <<>>
    /\ deleteLog = <<>>

NextFilter ==
    \/ \E repo \in Repos, passTerms \in BOOLEAN, depth \in Depths, sort \in SortValues,
          offset \in OffsetValues, limit \in LimitValues :
           Filter(repo, passTerms, depth, sort, offset, limit)
    \/ \E terms \in CallerLists : NewTerms(terms)

SpecFilter == InitFilter /\ [][NextFilter]_vars

Count(s, P(_)) == Cardinality({ k \in DOMAIN s : P(s[k]) })

\* C6: in every call of filter the AND-combined term list of the query holds
\* exactly three terms on repo, type and depth: repo equals the given repo,
\* type equals "folder", depth equals the given depth, each exactly once,
\* also when the caller hands the same terms list to successive calls.
FilterMandatoryOnce ==
    op.name = "filter" =>
        LET terms == aqlLog[1][1].find
            IsRepo(t)  == t.field = "repo"
            IsType(t)  == t.field = "type"
            IsDepth(t) == t.field = "depth"
        IN  /\ Count(terms, IsRepo) = 1
            /\ Count(terms, IsType) = 1
            /\ Count(terms, IsDepth) = 1
            /\ \E k \in DOMAIN terms : terms[k] = RepoTerm(op.repo)
            /\ \E k \in DOMAIN terms : terms[k] = TypeTerm
            /\ \E k \in DOMAIN terms : terms[k] = DepthTerm(op.depth)

ClauseKind(c) == CHOOSE k \in DOMAIN c : TRUE

\* C7: the query has a sort, offset or limit clause exactly when the
\* parameter is truthy, carrying the parameter's value, and the clauses come
\* in the order find, sort, offset, limit; offset=0 and limit=0 give no clause.
FilterClauses ==
    op.name = "filter" =>
        LET aql     == aqlLog[1]
            rank(k) == CASE k = "find" -> 1 [] k = "sort" -> 2
                         [] k = "offset" -> 3 [] k = "limit" -> 4
        IN  /\ ClauseKind(aql[1]) = "find"
            /\ \A i, j \in DOMAIN aql :
                   i < j => rank(ClauseKind(aql[i])) < rank(ClauseKind(aql[j]))
            /\ Clause(aql, "sort") = (IF TruthyDict(op.sort) THEN op.sort ELSE None)
            /\ Clause(aql, "offset") = (IF TruthyInt(op.offset) THEN op.offset ELSE None)
            /\ Clause(aql, "limit") = (IF TruthyInt(op.limit) THEN op.limit ELSE None)

FilterClausesWitness ==
    /\ op.name = "filter"
    /\ op.offset = Some(0)
    /\ op.limit = Some(2)
    /\ op.sort = Some(SortDesc("created"))
    /\ Len(aqlLog[1]) = 3
    /\ Len(ret) = 2

(* ------------------------------- retain -------------------------------- *)

NoneCount(terms, count, weeks) ==
    (IF terms = None THEN 1 ELSE 0) + (IF count = None THEN 1 ELSE 0)
        + (IF weeks = None THEN 1 ELSE 0)

InvalidPolicyOnlyAllNone(terms, count, weeks) == NoneCount(terms, count, weeks) > 2

\* if [terms, count, weeks].count(None) != 2
InvalidPolicy(terms, count, weeks) == NoneCount(terms, count, weeks) # 2

\* if spec_project and spec_project != project["name"]: continue
ProjectSkipped(spec_project, project) ==
    TruthyStr(spec_project) /\ spec_project[1] # project.name

CountSelectedNotNone(count) == count # None

\* if count:
CountSelected(count) == TruthyInt(count)

\* if weeks:
WeeksSelected(weeks) == TruthyInt(weeks)

\* a datetime is [sec, usec]; now - datetime.timedelta(weeks=weeks)
Before(now, weeks) == [sec |-> now.sec - weeks * WeekSeconds, usec |-> now.usec]

\* before.strftime("%Y-%m-%dT%H:%M:%SZ"): the timestamp to the second, as the
\* number of seconds (the text form orders and compares as this number does)
Strftime(dt) == dt.sec

CountAqlAscending(repo, path, depth, count) ==
    FilterAql(repo, Some(<< PathTerm(path) >>), depth + 1,
              Some(SortAsc("created")), count, None)

\* the query of the count branch
CountAql(repo, path, depth, count) ==
    FilterAql(repo, Some(<< PathTerm(path) >>), depth + 1,
              Some(SortDesc("created")), count, None)

\* the query of the weeks branch
WeeksAql(repo, path, depth, count, weeks, now) ==
    FilterAql(repo, Some(<< PathTerm(path), CreatedTerm(Strftime(Before(now, weeks[1]))) >>),
              depth + 1, None, count, None)

TermsAqlsQuerying(repo, path, depth, terms) ==
    IF TruthyColl(terms)
    THEN << FilterAql(repo, Some(<< PathTerm(path) >> \o terms[1]), depth + 1, None, None, None) >>
    ELSE <<>>

\* the queries of the terms branch: "if terms: pass"
TermsAqls(repo, path, depth, terms) == <<>>

\* the queries retain issues for one project that is not skipped, in order
ProjectAqls(repo, project, depth, terms, count, weeks, now) ==
    LET path == JoinPath(project.path, project.name)
    IN  (IF CountSelected(count) THEN << CountAql(repo, path, depth, count) >> ELSE <<>>)
            \o (IF WeeksSelected(weeks)
                THEN << WeeksAql(repo, path, depth, count, weeks, now) >> ELSE <<>>)
            \o TermsAqls(repo, path, depth, terms)

\* purgable.append("{}/{}".format(artifact["path"], artifact["name"])), for
\* each artifact of a result
Paths(results) == [k \in DOMAIN results |-> JoinPath(results[k].path, results[k].name)]

\* issue the queries aqls[k..] against st; acc = [purgable, log] so far
RECURSIVE RunAqls(_, _, _, _)
RunAqls(aqls, k, st, acc) ==
    IF k > Len(aqls) THEN { acc }
    ELSE UNION { RunAqls(aqls, k + 1, st,
                         [purgable |-> acc.purgable \o Paths(r),
                          log      |-> Append(acc.log, aqls[k])])
                 : r \in FindByAql(aqls[k], st) }

\* "for project in ...": every outcome of the loop from project i on
RECURSIVE RetainLoop(_, _, _, _, _)
RetainLoop(call, projects, i, st, acc) ==
    IF i > Len(projects) THEN { acc }
    ELSE IF ProjectSkipped(call.spec_project, projects[i])
         THEN RetainLoop(call, projects, i + 1, st, acc)
         ELSE UNION { RetainLoop(call, projects, i + 1, st, a)
                      : a \in RunAqls(ProjectAqls(call.repo, projects[i], call.depth,
                                                  call.terms, call.count, call.weeks,
                                                  call.now),
                                      1, st, acc) }

\* self.filter(repo, depth=depth)
ProjectsAql(repo, depth) == FilterAql(repo, None, depth, None, None, None)

RetainOutcomes(call, st) ==
    LET aql == ProjectsAql(call.repo, call.depth)
    IN  UNION { RetainLoop(call, projects, 1, st, [purgable |-> <<>>, log |-> << aql >>])
                : projects \in FindByAql(aql, st) }

\* retain(repo, spec_project, depth, terms, count, weeks), called at time
\* now; op holds the arguments of the call
Retain ==
    /\ op.name = "retain"
    /\ ~op.done
    /\ op' = [op EXCEPT !.done = TRUE]
    /\ IF InvalidPolicy(op.terms, op.count, op.weeks)
       THEN /\ raised' = "ValueError"
            /\ ret' = <<>>
            /\ aqlLog' = <<>>
       ELSE \E out \in RetainOutcomes(op, store) :
                /\ raised' = "none"
                /\ ret' = out.purgable
                /\ aqlLog' = out.log
    /\ deleteLog' = <<>>
    /\ UNCHANGED <<store, listing, callerTerms>>

RetainStores ==
    { { ProjApp, FileNotes, OtherX1 } \cup S
      : S \in SUBSET { ProjLib, BuildV1, BuildV2, BuildV3, BuildV4, BuildW1 } }

ProjectFilters == { None, Some(""), Some("app"), Some("lib") }

TermsValues == { None, Some(<<>>), Some(<< PathTerm("org/app") >>) }

CountValues == { None } \cup { Some(n) : n \in 0 .. MaxCount }

WeeksValues == { None } \cup { Some(n) : n \in 0 .. MaxWeeks }

Nows == { [sec |-> 3 * WeekSeconds, usec |-> 0],
          [sec |-> 3 * WeekSeconds + 1, usec |-> 250000] }

RetainCalls ==
    [name : { "retain" }, done : { FALSE }, repo : Repos, spec_project : ProjectFilters,
     depth : Depths, terms : TermsValues, count : CountValues, weeks : WeeksValues,
     now : Nows]

InitRetain ==
    /\ store \in RetainStores
    /\ op \in RetainCalls
    /\ listing = <<>>
    /\ callerTerms = <<>>
    /\ ret = 0
    /\ raised = "none"
    /\ aqlLog = <<>>
    /\ deleteLog = <<>>

NextRetain == Retain

SpecRetain == InitRetain /\ [][NextRetain]_vars

Returned(call) == op.name = "retain" /\ op.done

\* C1: retain with none, two or all three of terms, count and weeks fails
\* with ValueError, and no query has been issued.
RetainRejectsPolicy ==
    (Returned(op) /\ Cardinality({ x \in { "terms", "count", "weeks" } : op[x] # None }) # 1)
        => /\ raised = "ValueError"
           /\ aqlLog = <<>>

RetainRejectsPolicyWitness ==
    /\ Returned(op)
    /\ op.count = Some(1)
    /\ op.weeks = Some(1)
    /\ op.terms = None
    /\ raised = "ValueError"
    /\ BuildV1 \in store

Range(s) == { s[k] : k \in DOMAIN s }

OnlyCount(call) == call.count # None /\ call.terms = None /\ call.weeks = None

OnlyWeeks(call) == call.weeks # None /\ call.terms = None /\ call.count = None

OnlyTerms(call) == call.terms # None /\ call.count = None /\ call.weeks = None

\* the folders of the repository at the project depth that the project
\* filter lets through
PassingProjects(call) ==
    { p \in store : /\ p.repo = call.repo /\ p.type = "folder" /\ p.depth = call.depth
                    /\ (call.spec_project \in { None, Some("") }
                            \/ call.spec_project = Some(p.name)) }

\* the folders one level below a project, directly under its full path
ArtifactsOf(call, p) ==
    { a \in store : /\ a.repo = call.repo /\ a.type = "folder"
                    /\ a.depth = call.depth + 1 /\ a.path = FullPath(p) }

\* C2: under the count policy with count = N >= 1 the purgable list holds,
\* for every project that passes the project filter, the paths of all of its
\* artifacts except N most recently created ones (nothing for a project with
\* N or fewer artifacts), each once, and nothing else.
RetainCountKeepsNewest ==
    (Returned(op) /\ OnlyCount(op) /\ op.count # Some(0)) =>
        /\ raised = "none"
        /\ Len(ret) = Cardinality(Range(ret))
        /\ Range(ret) \subseteq
               { FullPath(a) : a \in UNION { ArtifactsOf(op, p) : p \in PassingProjects(op) } }
        /\ \A p \in PassingProjects(op) :
               LET all  == ArtifactsOf(op, p)
                   gone == { a \in all : FullPath(a) \in Range(ret) }
                   n    == op.count[1]
               IN  /\ Cardinality(gone)
                          = (IF Cardinality(all) > n THEN Cardinality(all) - n ELSE 0)
                   /\ \A a \in gone, b \in all \ gone : a.created <= b.created

RetainCountWitness ==
    /\ Returned(op)
    /\ OnlyCount(op)
    /\ op.count = Some(2)
    /\ op.spec_project = None
    /\ op.depth = 1
    /\ { BuildV1, BuildV2, BuildV3, BuildV4, ProjLib, BuildW1 } \subseteq store
    /\ Range(ret) = { "org/app/v1", "org/app/v3" }

\* C3: under the weeks policy with weeks = W >= 1 every path of the purgable
\* list belongs to an artifact created before the cutoff (the call time minus
\* W weeks); no artifact created at or after the cutoff is returned.
RetainWeeksOnlyOlder ==
    (Returned(op) /\ OnlyWeeks(op) /\ op.weeks # Some(0)) =>
        LET cutoff == op.now.sec - op.weeks[1] * WeekSeconds
        IN  \A k \in DOMAIN ret :
                \A a \in store : FullPath(a) = ret[k] => a.created < cutoff

\* C9: under the terms policy retain returns the empty list and issues the
\* project enumeration query at the given depth and no other query.
RetainTermsNoOp ==
    (Returned(op) /\ OnlyTerms(op)) =>
        /\ raised = "none"
        /\ ret = <<>>
        /\ Len(aqlLog) = 1
        /\ aqlLog[1] = << [find |-> << RepoTerm(op.repo), TypeTerm, DepthTerm(op.depth) >>] >>

RetainTermsWitness ==
    /\ Returned(op)
    /\ OnlyTerms(op)
    /\ op.terms = Some(<< PathTerm("org/app") >>)
    /\ op.depth = 1
    /\ op.spec_project = Some("app")
    /\ { BuildV1, BuildV2 } \subseteq store
    /\ ret = <<>>

\* C10: count=0 alone, or weeks=0 alone, passes the validation, selects no
\* policy branch, issues the project enumeration query only and returns the
\* empty list, whatever artifacts the projects have.
RetainZeroSelectsNothing ==
    (Returned(op) /\ ((OnlyCount(op) /\ op.count = Some(0))
                          \/ (OnlyWeeks(op) /\ op.weeks = Some(0)))) =>
        /\ raised = "none"
        /\ ret = <<>>
        /\ Len(aqlLog) = 1
        /\ aqlLog[1] = ProjectsAql(op.repo, op.depth)

RetainZeroWitness ==
    /\ Returned(op)
    /\ OnlyCount(op)
    /\ op.count = Some(0)
    /\ op.depth = 1
    /\ op.spec_project = None
    /\ { BuildV1, BuildV2, BuildV3 } \subseteq store
    /\ raised = "none"
    /\ ret = <<>>

====
